---- MODULE Spec2Model ----
(***************************************************************************)
(* Model of zed/src/util.rs: the bounded sorted merge extend_sorted and    *)
(* the sequential message dispatcher handle_messages.                      *)
(***************************************************************************)
EXTENDS Integers, Sequences, FiniteSets, TLC

VARIABLES
    cmpKind,      \* the comparator the caller passes as cmp
    vec,          \* the caller's vector (vec: &mut Vec<T>)
    new_items,    \* what is left of the new_items iterator
    limit,        \* the limit argument of the running call
    start_index,  \* the local start_index of the running call
    pc,           \* "idle": no call running; "loop": inside the for loop
    vec0,         \* history: vec when the running call began
    batch,        \* history: the whole new_items of the running call
    prev,         \* history: vec before the last loop iteration
    new_item,     \* the item of the last loop iteration
    branch,       \* history: the branch the last loop iteration took
    prev_start,   \* history: start_index before the last loop iteration
    probed,       \* history: the indices of vec the last search compared
    caller,       \* per dispatcher: where its handle_messages call stands
    channel,      \* per dispatcher: messages sent to `messages`, not yet received
    closed,       \* per dispatcher: the message source is exhausted
    task,         \* per dispatcher: where the spawned loop stands
    message,      \* per dispatcher: the message being handled
    active,       \* per dispatcher: handler futures created and not completed
    polls,        \* per dispatcher: the running handler has returned Pending
    yielded,      \* history: every message the source yielded, in order
    invoked,      \* history: every message the handler was invoked on, in order
    errlog,       \* the invocations whose error was logged, in order
    other,        \* flipped by each step of an unrelated task of the executor
    subscribed,   \* per dispatcher: add_message_handler has registered the stream
    dropped,      \* per dispatcher: messages that arrived with no stream registered
    biasLog,      \* the comparisons of Bias values made so far, with their results
    rngFlips,     \* what the four gen_bool calls of the last next() would return
    rngPick,      \* what the gen_range / choose call of the last next() draws
    rngCalls,     \* the calls the last next() made on the random source, in order
    charOut,      \* what the last next() returned
    charCount,    \* how many characters the iterator has yielded
    res,          \* the surf::Result the context adapter is applied to
    res0,         \* history: that result before any context was added
    ctxLog,       \* history: the adapter calls made on it, in order
    factoryCalls  \* how many times a with_context closure was run

mergeVars == <<cmpKind, vec, new_items, limit, start_index, pc, vec0, batch,
               prev, new_item, branch, prev_start, probed>>

subVars == <<subscribed, dropped>>

dispVars == <<caller, channel, closed, task, message, active, polls, yielded,
              invoked, errlog, other, subVars>>

biasVars == <<biasLog>>

charVars == <<rngFlips, rngPick, rngCalls, charOut, charCount>>

ctxVars == <<res, res0, ctxLog, factoryCalls>>

pureVars == <<biasVars, charVars, ctxVars>>

vars == <<mergeVars, dispVars, pureVars>>

----------------------------------------------------------------------------
(* Bounds of the model. *)
MaxVal == 4      \* elements are 1..MaxVal
MaxLen == 3      \* longest initial container and longest batch
MaxLimit == 3    \* largest limit a call passes
MaxMsgs == 2     \* most messages one source yields
MaxCmps == 4     \* most comparisons of Bias values in one run
MaxChars == 2    \* most characters taken from one RandomCharIter
MaxCtx == 3      \* most contexts added to one result

Values == 1..MaxVal
NoItem == 0

Instances == {"h1", "h2"}   \* two handle_messages calls, one per message type
NoMsg == 0                  \* message k is the k-th one its source yields

----------------------------------------------------------------------------
(* Comparators.  "desc" is the test's |a, b| b.cmp(a); "bykey" orders by a  *)
(* key that two distinct elements may share, so that Equal under cmp is    *)
(* weaker than identity.                                                   *)
CmpKinds == {"desc", "bykey"}

Key(x) == (x + 1) \div 2

OrdCmp(a, b) == IF a < b THEN "Less" ELSE IF a = b THEN "Equal" ELSE "Greater"

CmpBy(kind, a, b) ==
    IF kind = "desc" THEN OrdCmp(b, a) ELSE OrdCmp(Key(a), Key(b))

cmp(a, b) == CmpBy(cmpKind, a, b)

----------------------------------------------------------------------------
(* Vec operations, with the 0-based indices of the code. *)
At(s, i) == s[i + 1]

VecInsert(s, index, x) ==
    SubSeq(s, 1, index) \o <<x>> \o SubSeq(s, index + 1, Len(s))

VecPop(s) == SubSeq(s, 1, Len(s) - 1)

SliceFrom(s, from) == SubSeq(s, from + 1, Len(s))

(* slice::binary_search_by(|m| cmp(m, &item)) over the slice s:             *)
(* [found |-> TRUE, idx |-> i] is Ok(i), [found |-> FALSE, idx |-> i] is    *)
(* Err(i).                                                                 *)
RECURSIVE BinarySearchLoop(_, _, _, _, _)
BinarySearchLoop(kind, s, item, left, right) ==
    IF left >= right
    THEN [found |-> FALSE, idx |-> left]
    ELSE LET mid == left + ((right - left) \div 2)
             c == CmpBy(kind, At(s, mid), item)
         IN  IF c = "Less" THEN BinarySearchLoop(kind, s, item, mid + 1, right)
             ELSE IF c = "Greater" THEN BinarySearchLoop(kind, s, item, left, mid)
             ELSE [found |-> TRUE, idx |-> mid]

BinarySearchBy(kind, s, item) == BinarySearchLoop(kind, s, item, 0, Len(s))

(* The indices of s at which that search calls the comparator. *)
RECURSIVE BinarySearchSeen(_, _, _, _, _)
BinarySearchSeen(kind, s, item, left, right) ==
    IF left >= right
    THEN {}
    ELSE LET mid == left + ((right - left) \div 2)
             c == CmpBy(kind, At(s, mid), item)
         IN  {mid} \cup
             (IF c = "Less" THEN BinarySearchSeen(kind, s, item, mid + 1, right)
              ELSE IF c = "Greater" THEN BinarySearchSeen(kind, s, item, left, mid)
              ELSE {})

(* Faulty variants of the loop body, used to show that the properties below *)
(* depend on it.  NoPop: the full branch forgets vec.pop().                *)
ExtendStepNoPop(kind, v, si, item, lim) ==
    IF si > Len(v)
    THEN [vec |-> v, start_index |-> si, branch |-> "panic"]
    ELSE LET r == BinarySearchBy(kind, SliceFrom(v, si), item) IN
         IF r.found
         THEN [vec |-> v, start_index |-> si, branch |-> "tie"]
         ELSE LET index == si + r.idx IN
              IF Len(v) < lim
              THEN [vec |-> VecInsert(v, index, item),
                    start_index |-> index, branch |-> "insert"]
              ELSE IF index < Len(v)
              THEN [vec |-> VecInsert(v, index, item),
                    start_index |-> index, branch |-> "evict"]
              ELSE [vec |-> v, start_index |-> index, branch |-> "discard"]

(* StrictLast: the full branch tests index < vec.len() - 1. *)
ExtendStepStrictLast(kind, v, si, item, lim) ==
    IF si > Len(v)
    THEN [vec |-> v, start_index |-> si, branch |-> "panic"]
    ELSE LET r == BinarySearchBy(kind, SliceFrom(v, si), item) IN
         IF r.found
         THEN [vec |-> v, start_index |-> si, branch |-> "tie"]
         ELSE LET index == si + r.idx IN
              IF Len(v) < lim
              THEN [vec |-> VecInsert(v, index, item),
                    start_index |-> index, branch |-> "insert"]
              ELSE IF index < Len(v) - 1
              THEN [vec |-> VecInsert(VecPop(v), index, item),
                    start_index |-> index, branch |-> "evict"]
              ELSE [vec |-> v, start_index |-> index, branch |-> "discard"]

(* EvictAtEnd: the full branch tests index <= vec.len(), and an item that  *)
(* sorts after the last element replaces it.                               *)
ExtendStepEvictAtEnd(kind, v, si, item, lim) ==
    IF si > Len(v)
    THEN [vec |-> v, start_index |-> si, branch |-> "panic"]
    ELSE LET r == BinarySearchBy(kind, SliceFrom(v, si), item) IN
         IF r.found
         THEN [vec |-> v, start_index |-> si, branch |-> "tie"]
         ELSE LET index == si + r.idx IN
              IF Len(v) < lim
              THEN [vec |-> VecInsert(v, index, item),
                    start_index |-> index, branch |-> "insert"]
              ELSE IF index <= Len(v) /\ Len(v) > 0
              THEN [vec |-> VecInsert(VecPop(v), Len(v) - 1, item),
                    start_index |-> Len(v) - 1, branch |-> "evict"]
              ELSE [vec |-> v, start_index |-> index, branch |-> "discard"]

(* NoOffset: the index found in the slice is used as an index of vec. *)
ExtendStepNoOffset(kind, v, si, item, lim) ==
    IF si > Len(v)
    THEN [vec |-> v, start_index |-> si, branch |-> "panic"]
    ELSE LET r == BinarySearchBy(kind, SliceFrom(v, si), item) IN
         IF r.found
         THEN [vec |-> v, start_index |-> si, branch |-> "tie"]
         ELSE LET index == r.idx IN
              IF Len(v) < lim
              THEN [vec |-> VecInsert(v, index, item),
                    start_index |-> index, branch |-> "insert"]
              ELSE IF index < Len(v)
              THEN [vec |-> VecInsert(VecPop(v), index, item),
                    start_index |-> index, branch |-> "evict"]
              ELSE [vec |-> v, start_index |-> index, branch |-> "discard"]

(* ReplaceOnTie: an exact match overwrites the element found. *)
ExtendStepReplaceOnTie(kind, v, si, item, lim) ==
    IF si > Len(v)
    THEN [vec |-> v, start_index |-> si, branch |-> "panic"]
    ELSE LET r == BinarySearchBy(kind, SliceFrom(v, si), item) IN
         IF r.found
         THEN [vec |-> [v EXCEPT ![si + r.idx + 1] = item],
               start_index |-> si, branch |-> "tie"]
         ELSE LET index == si + r.idx IN
              IF Len(v) < lim
              THEN [vec |-> VecInsert(v, index, item),
                    start_index |-> index, branch |-> "insert"]
              ELSE IF index < Len(v)
              THEN [vec |-> VecInsert(VecPop(v), index, item),
                    start_index |-> index, branch |-> "evict"]
              ELSE [vec |-> v, start_index |-> index, branch |-> "discard"]

(* InsertOnTie: an exact match is treated as an insertion point           *)
(* (binary_search_by(..).unwrap_or_else(|i| i)).                           *)
ExtendStepInsertOnTie(kind, v, si, item, lim) ==
    IF si > Len(v)
    THEN [vec |-> v, start_index |-> si, branch |-> "panic"]
    ELSE LET r == BinarySearchBy(kind, SliceFrom(v, si), item)
             index == si + r.idx
         IN  IF Len(v) < lim
             THEN [vec |-> VecInsert(v, index, item),
                   start_index |-> index, branch |-> "insert"]
             ELSE IF index < Len(v)
             THEN [vec |-> VecInsert(VecPop(v), index, item),
                   start_index |-> index, branch |-> "evict"]
             ELSE [vec |-> v, start_index |-> index, branch |-> "discard"]

(* FloorToMatch: an exact match moves start_index to the index found. *)
ExtendStepFloorToMatch(kind, v, si, item, lim) ==
    IF si > Len(v)
    THEN [vec |-> v, start_index |-> si, branch |-> "panic"]
    ELSE LET r == BinarySearchBy(kind, SliceFrom(v, si), item) IN
         IF r.found
         THEN [vec |-> v, start_index |-> si + r.idx, branch |-> "tie"]
         ELSE LET index == si + r.idx IN
              IF Len(v) < lim
              THEN [vec |-> VecInsert(v, index, item),
                    start_index |-> index, branch |-> "insert"]
              ELSE IF index < Len(v)
              THEN [vec |-> VecInsert(VecPop(v), index, item),
                    start_index |-> index, branch |-> "evict"]
              ELSE [vec |-> v, start_index |-> index, branch |-> "discard"]

(* FloorPastIndex: a discarded item leaves start_index = index + 1. *)
ExtendStepFloorPastIndex(kind, v, si, item, lim) ==
    IF si > Len(v)
    THEN [vec |-> v, start_index |-> si, branch |-> "panic"]
    ELSE LET r == BinarySearchBy(kind, SliceFrom(v, si), item) IN
         IF r.found
         THEN [vec |-> v, start_index |-> si, branch |-> "tie"]
         ELSE LET index == si + r.idx IN
              IF Len(v) < lim
              THEN [vec |-> VecInsert(v, index, item),
                    start_index |-> index, branch |-> "insert"]
              ELSE IF index < Len(v)
              THEN [vec |-> VecInsert(VecPop(v), index, item),
                    start_index |-> index, branch |-> "evict"]
              ELSE [vec |-> v, start_index |-> index + 1, branch |-> "discard"]

(* Overwrite: the full branch replaces the element at index by the item. *)
ExtendStepOverwrite(kind, v, si, item, lim) ==
    IF si > Len(v)
    THEN [vec |-> v, start_index |-> si, branch |-> "panic"]
    ELSE LET r == BinarySearchBy(kind, SliceFrom(v, si), item) IN
         IF r.found
         THEN [vec |-> v, start_index |-> si, branch |-> "tie"]
         ELSE LET index == si + r.idx IN
              IF Len(v) < lim
              THEN [vec |-> VecInsert(v, index, item),
                    start_index |-> index, branch |-> "insert"]
              ELSE IF index < Len(v)
              THEN [vec |-> [v EXCEPT ![index + 1] = item],
                    start_index |-> index, branch |-> "evict"]
              ELSE [vec |-> v, start_index |-> index, branch |-> "discard"]

(* One iteration of the for loop of extend_sorted on new_item. *)
ExtendStep(kind, v, si, item, lim) ==
    IF si > Len(v)
    THEN [vec |-> v, start_index |-> si, branch |-> "panic"]
    ELSE LET r == BinarySearchBy(kind, SliceFrom(v, si), item) IN
         IF r.found
         THEN [vec |-> v, start_index |-> si, branch |-> "tie"]
         ELSE LET index == si + r.idx IN
              IF Len(v) < lim
              THEN [vec |-> VecInsert(v, index, item),
                    start_index |-> index, branch |-> "insert"]
              ELSE IF index < Len(v)
              THEN [vec |-> VecInsert(VecPop(v), index, item),
                    start_index |-> index, branch |-> "evict"]
              ELSE [vec |-> v, start_index |-> index, branch |-> "discard"]

(* The whole call as a function: the fold of ExtendStep over the batch. *)
RECURSIVE ExtendFrom(_, _, _, _, _)
ExtendFrom(kind, v, si, items, lim) ==
    IF items = <<>> THEN v
    ELSE LET r == ExtendStep(kind, v, si, Head(items), lim)
         IN  ExtendFrom(kind, r.vec, r.start_index, Tail(items), lim)

ExtendSorted(kind, v, items, lim) == ExtendFrom(kind, v, 0, items, lim)

----------------------------------------------------------------------------
(* Inputs. *)
SortedUnder(kind, s) ==
    \A i, j \in 1..Len(s) : i < j => CmpBy(kind, s[i], s[j]) # "Greater"

SeqsUpTo(n) == UNION {[1..k -> Values] : k \in 0..n}

SortedSeqs(kind, n) == {s \in SeqsUpTo(n) : SortedUnder(kind, s)}

BiasIdle == biasLog = <<>>

CharIdle ==
    /\ rngFlips = <<FALSE, FALSE, FALSE, FALSE>>
    /\ rngPick = 0
    /\ rngCalls = <<>>
    /\ charOut = [kind |-> "idle", ch |-> 0]
    /\ charCount = 0

CtxIdle ==
    /\ res = [ok |-> TRUE, value |-> "v1"]
    /\ res0 = [ok |-> TRUE, value |-> "v1"]
    /\ ctxLog = <<>>
    /\ factoryCalls = 0

PureIdle == BiasIdle /\ CharIdle /\ CtxIdle

DispIdle ==
    /\ caller = [i \in Instances |-> "start"]
    /\ channel = [i \in Instances |-> <<>>]
    /\ closed = [i \in Instances |-> FALSE]
    /\ task = [i \in Instances |-> "unspawned"]
    /\ message = [i \in Instances |-> NoMsg]
    /\ active = [i \in Instances |-> 0]
    /\ polls = [i \in Instances |-> FALSE]
    /\ yielded = [i \in Instances |-> <<>>]
    /\ invoked = [i \in Instances |-> <<>>]
    /\ errlog = [i \in Instances |-> <<>>]
    /\ other = FALSE
    /\ subscribed = [i \in Instances |-> FALSE]
    /\ dropped = [i \in Instances |-> 0]

MergeIdle ==
    /\ cmpKind = "desc"
    /\ vec = <<>>
    /\ new_items = <<>>
    /\ limit = 0
    /\ start_index = 0
    /\ pc = "idle"
    /\ vec0 = <<>>
    /\ batch = <<>>
    /\ prev = <<>>
    /\ new_item = NoItem
    /\ branch = "none"
    /\ prev_start = 0
    /\ probed = {}

MergeInit ==
    /\ DispIdle
    /\ PureIdle
    /\ cmpKind \in CmpKinds
    /\ vec \in SortedSeqs(cmpKind, MaxLen)
    /\ new_items = <<>>
    /\ limit = 0
    /\ start_index = 0
    /\ pc = "idle"
    /\ vec0 = vec
    /\ batch = <<>>
    /\ prev = vec
    /\ new_item = NoItem
    /\ branch = "none"
    /\ prev_start = 0
    /\ probed = {}

(* extend_sorted(&mut vec, items, lim, cmp) is called. *)
Call(items, lim) ==
    /\ pc' = "loop"
    /\ new_items' = items
    /\ limit' = lim
    /\ start_index' = 0
    /\ vec0' = vec
    /\ batch' = items
    /\ prev' = vec
    /\ new_item' = NoItem
    /\ branch' = "none"
    /\ prev_start' = 0
    /\ probed' = {}
    /\ UNCHANGED <<cmpKind, vec, dispVars, pureVars>>

(* for new_item in new_items { ... } takes the next item. *)
Iterate ==
    /\ pc = "loop"
    /\ new_items # <<>>
    /\ branch # "panic"
    /\ LET r == ExtendStep(cmpKind, vec, start_index, Head(new_items), limit) IN
        /\ vec' = r.vec
        /\ start_index' = r.start_index
        /\ branch' = r.branch
    /\ prev' = vec
    /\ prev_start' = start_index
    /\ probed' = {start_index + m :
                    m \in BinarySearchSeen(cmpKind, SliceFrom(vec, start_index),
                                           Head(new_items), 0,
                                           Len(SliceFrom(vec, start_index)))}
    /\ new_item' = Head(new_items)
    /\ new_items' = Tail(new_items)
    /\ UNCHANGED <<cmpKind, limit, pc, vec0, batch, dispVars, pureVars>>

(* The iterator is exhausted and extend_sorted returns. *)
Return ==
    /\ pc = "loop"
    /\ new_items = <<>>
    /\ pc' = "idle"
    /\ limit' = 0
    /\ start_index' = 0
    /\ vec0' = vec
    /\ batch' = <<>>
    /\ prev' = vec
    /\ new_item' = NoItem
    /\ branch' = "none"
    /\ prev_start' = 0
    /\ probed' = {}
    /\ UNCHANGED <<cmpKind, vec, new_items, dispVars, pureVars>>

MergeNext ==
    \/ /\ pc = "idle"
       /\ \E items \in SortedSeqs(cmpKind, MaxLen), lim \in 0..MaxLimit : Call(items, lim)
    \/ Iterate
    \/ Return

Spec == MergeInit /\ [][MergeNext]_vars

----------------------------------------------------------------------------
(* Properties of extend_sorted, checked under Spec. *)
Sorted(s) == SortedUnder(cmpKind, s)

DupFree(s) == \A i, j \in 1..Len(s) : i # j => cmp(s[i], s[j]) # "Equal"

Range(s) == {s[i] : i \in 1..Len(s)}

Min(a, b) == IF a < b THEN a ELSE b

AtReturn == pc = "loop" /\ new_items = <<>>

Stepped == pc = "loop" /\ new_item # NoItem

ValidCall == Len(vec0) <= limit /\ Sorted(vec0) /\ Sorted(batch)

TiesWith(s, x) == \E j \in 1..Len(s) : cmp(s[j], x) = "Equal"

(* The sorted position of x in s: how many elements of s sort before x. *)
Rank(s, x) == Cardinality({j \in 1..Len(s) : cmp(s[j], x) = "Less"})

(* s with its last element removed and x put at its sorted position. *)
Admitted(s, x) ==
    [j \in 1..Len(s) |->
        IF j <= Rank(s, x) THEN s[j]
        ELSE IF j = Rank(s, x) + 1 THEN x
        ELSE s[j - 1]]

(* C1: when a call whose container was sorted and no longer than the limit, *)
(* and whose batch was sorted, returns, the container is sorted and no     *)
(* longer than the limit.                                                  *)
C1_SortedWithinLimit ==
    (AtReturn /\ ValidCall) => (Sorted(vec) /\ Len(vec) <= limit)

(* A call from the empty container with more distinct items than the limit. *)
C1_Witness ==
    /\ AtReturn
    /\ vec0 = <<>>
    /\ DupFree(batch)
    /\ limit >= 1
    /\ Len(batch) > limit
    /\ Len(vec) = limit

(* The union of container and batch without cmp-duplicates: an item of the  *)
(* batch counts when it ties with no element of the container and with no  *)
(* earlier item of the batch.                                              *)
UnionOf(c, b) ==
    Range(c) \cup
    {b[j] : j \in {k \in 1..Len(b) :
                      /\ ~TiesWith(c, b[k])
                      /\ \A h \in 1..(k - 1) : cmp(b[h], b[k]) # "Equal"}}

(* The first n elements of the set U in cmp order. *)
FirstOf(U, n) ==
    [r \in 1..n |->
        CHOOSE x \in U : Cardinality({y \in U : cmp(y, x) = "Less"}) = r - 1]

(* tests::test_extend_sorted, run on the model of the code. *)
TestExtendSorted ==
    LET v1 == ExtendSorted("desc", <<>>, <<21, 17, 13, 8, 1, 0>>, 5)
        v2 == ExtendSorted("desc", v1, <<101, 19, 17, 8, 2>>, 8)
        v3 == ExtendSorted("desc", v2, <<1000, 19, 17, 9, 5>>, 8)
    IN  /\ v1 = <<21, 17, 13, 8, 1>>
        /\ v2 = <<101, 21, 19, 17, 13, 8, 2, 1>>
        /\ v3 = <<1000, 101, 21, 19, 17, 13, 9, 8>>

(* C2: a call on a sorted, cmp-duplicate-free container no longer than the  *)
(* limit leaves the first min(limit, k) elements of the sorted             *)
(* duplicate-free union of container and batch, k the size of the union;   *)
(* the three calls of the test give the three vectors the test asserts.    *)
C2_FirstOfUnion ==
    /\ (AtReturn /\ ValidCall /\ DupFree(vec0)) =>
          LET U == UnionOf(vec0, batch)
          IN  vec = FirstOf(U, Min(limit, Cardinality(U)))
    /\ TestExtendSorted

(* A call that had to evict: the union is larger than the limit and the    *)
(* container changed.                                                      *)
C2_Witness ==
    /\ AtReturn
    /\ ValidCall
    /\ DupFree(vec0)
    /\ Cardinality(UnionOf(vec0, batch)) > limit
    /\ Len(vec0) = limit
    /\ vec # vec0

(* C3: when a call returns, the container is no longer than the call's     *)
(* limit, whatever the length of the container was when the call began.    *)
C3_LenWithinLimit == AtReturn => Len(vec) <= limit

(* C4: an iteration on a full container (length = limit >= 1) with an item *)
(* that ties with no element and sorts strictly before the last element    *)
(* removes the last element and puts the item at its sorted position, the  *)
(* other elements keeping their order; the length is still limit.          *)
C4_Eviction ==
    (/\ Stepped
     /\ Len(prev) = limit
     /\ limit >= 1
     /\ ~TiesWith(prev, new_item)
     /\ cmp(prev[Len(prev)], new_item) = "Greater") =>
        /\ Len(vec) = limit
        /\ vec = Admitted(prev, new_item)

(* An eviction in the middle of a full container of at least two elements. *)
C4_Witness ==
    /\ Stepped
    /\ Len(prev) = limit
    /\ limit >= 2
    /\ ~TiesWith(prev, new_item)
    /\ cmp(prev[Len(prev)], new_item) = "Greater"
    /\ Rank(prev, new_item) >= 1
    /\ branch = "evict"

(* C5 as stated: an iteration on a full container with an item whose       *)
(* insertion index is at or after the index of the last element            *)
(* (index >= length - 1) leaves the container unchanged.                   *)
C5_DiscardFromLastIndex ==
    (/\ Stepped
     /\ Len(prev) = limit
     /\ ~TiesWith(prev, new_item)
     /\ Rank(prev, new_item) >= Len(prev) - 1) => vec = prev

(* C5 amended: on a full container an item that ties with no element is    *)
(* discarded, the container unchanged, exactly when its insertion index is *)
(* the length of the container (it sorts after every element); with an     *)
(* insertion index up to and including the last index it is admitted and   *)
(* the last element is evicted.                                            *)
C5_DiscardAtEnd ==
    (/\ Stepped
     /\ Len(prev) = limit
     /\ ~TiesWith(prev, new_item)) =>
        /\ Rank(prev, new_item) >= Len(prev) => vec = prev
        /\ Rank(prev, new_item) < Len(prev) => vec = Admitted(prev, new_item)

(* An item discarded at the end of a full, non-empty container. *)
C5_Witness ==
    /\ Stepped
    /\ Len(prev) = limit
    /\ limit >= 1
    /\ ~TiesWith(prev, new_item)
    /\ Rank(prev, new_item) = Len(prev)
    /\ branch = "discard"

(* C6: an iteration with an item that compares Equal to an element of the  *)
(* container leaves the container as it was, full or not.                  *)
C6_DropOnTie ==
    (Stepped /\ TiesWith(prev, new_item)) => vec = prev

(* A tie on a full container with an element that is not the item itself,  *)
(* after an item of the same call was inserted.                            *)
C6_Witness ==
    /\ Stepped
    /\ TiesWith(prev, new_item)
    /\ new_item \notin Range(prev)
    /\ Len(prev) = limit
    /\ prev # vec0
    /\ branch = "tie"

(* C11: when a valid call returns, a second call with the same batch,       *)
(* limit and cmp would leave the container as the first call left it; a    *)
(* call with an empty batch leaves the container as it was.                *)
C11_IdempotentReMerge ==
    (AtReturn /\ ValidCall) =>
        /\ ExtendSorted(cmpKind, vec, batch, limit) = vec
        /\ batch = <<>> => vec = vec0

(* A call that inserted, evicted and discarded: the re-merge meets ties and *)
(* items that sort after the end of the full container.                    *)
C11_Witness ==
    /\ AtReturn
    /\ ValidCall
    /\ vec # vec0
    /\ Len(vec) = limit
    /\ \E j \in 1..Len(batch) : ~TiesWith(vec, batch[j])
    /\ \E j \in 1..Len(batch) : batch[j] \in Range(vec) /\ batch[j] \notin Range(vec0)

(* C15 as stated: an iteration whose search finds an element Equal to the  *)
(* item skips the item and leaves start_index at the index of a matching   *)
(* element.                                                                *)
C15_FloorAtMatch ==
    (Stepped /\ ValidCall /\ branch = "tie") =>
        /\ vec = prev
        /\ start_index < Len(vec)
        /\ cmp(At(vec, start_index), new_item) = "Equal"

(* C15 amended: an iteration whose search finds an element Equal to the    *)
(* item skips the item and leaves start_index as it was, not advanced to   *)
(* the match; the matching element is at or after start_index, where the   *)
(* searches for the later items start.                                     *)
C15_FloorKeptOnMatch ==
    (Stepped /\ branch = "tie") =>
        /\ vec = prev
        /\ start_index = prev_start
        /\ \E j \in start_index..(Len(vec) - 1) :
              cmp(At(vec, j), new_item) = "Equal"

(* A match found after the floor, with items of the batch still to come. *)
C15_Witness ==
    /\ Stepped
    /\ branch = "tie"
    /\ cmp(At(vec, start_index), new_item) # "Equal"
    /\ new_items # <<>>

(* C16: during a valid call start_index does not decrease from one item to *)
(* the next and is at most the length of the container, so the slice taken *)
(* at it and the index of every insert are in range; the search compares   *)
(* no element before the floor it started from.                            *)
C16_FloorInRange ==
    (pc = "loop" /\ ValidCall) =>
        /\ branch # "panic"
        /\ start_index <= Len(vec)
        /\ prev_start <= start_index
        /\ \A p \in probed : prev_start <= p /\ p < Len(prev)
        /\ branch \in {"insert", "evict"} =>
              start_index < Len(vec) /\ At(vec, start_index) = new_item

(* An item searched in the empty slice at the end of a full container,     *)
(* after an earlier item of the call was discarded there.                  *)
C16_Witness ==
    /\ Stepped
    /\ ValidCall
    /\ limit >= 1
    /\ Len(prev) = limit
    /\ prev_start = Len(prev)
    /\ branch = "discard"

(* The elements of s at the positions in P, in order, from position j on. *)
RECURSIVE Select(_, _, _)
Select(s, P, j) ==
    IF j > Len(s) THEN <<>>
    ELSE (IF j \in P THEN <<s[j]>> ELSE <<>>) \o Select(s, P, j + 1)

RECURSIVE IsSubseq(_, _)
IsSubseq(a, b) ==
    IF a = <<>> THEN TRUE
    ELSE IF b = <<>> THEN FALSE
    ELSE IF Head(a) = Head(b) THEN IsSubseq(Tail(a), Tail(b))
    ELSE IsSubseq(a, Tail(b))

(* C17: when a valid call returns, the container is a prefix of the        *)
(* original container, in its order, interleaved with items of the batch   *)
(* in their order; an iteration that discards or drops its item leaves the *)
(* container as it was.                                                    *)
C17_RemovesOnlyFromTail ==
    /\ (AtReturn /\ ValidCall) =>
          \E P \in SUBSET (1..Len(vec)) :
              /\ Cardinality(P) <= Len(vec0)
              /\ Select(vec, P, 1) = SubSeq(vec0, 1, Cardinality(P))
              /\ IsSubseq(Select(vec, (1..Len(vec)) \ P, 1), batch)
    /\ (Stepped /\ ValidCall /\ new_item \notin Range(vec)) => vec = prev

(* A call on a full container that kept its first element, evicted others  *)
(* and discarded an item.                                                  *)
C17_Witness ==
    /\ AtReturn
    /\ ValidCall
    /\ limit >= 2
    /\ Len(vec0) = limit
    /\ vec # vec0
    /\ vec[1] = vec0[1]
    /\ branch = "discard"

----------------------------------------------------------------------------
(* Bias and its ordering. *)
Bias == {"Left", "Right"}

(* A faulty variant: the (Right, Left) arm repeats the (Left, Right) one. *)
BiasCmpRepeatedArm(a, b) ==
    CASE a = "Left" /\ b = "Left" -> "Equal"
      [] a = "Left" /\ b = "Right" -> "Less"
      [] a = "Right" /\ b = "Right" -> "Equal"
      [] a = "Right" /\ b = "Left" -> "Less"

(* impl Ord for Bias: fn cmp *)
BiasCmp(a, b) ==
    CASE a = "Left" /\ b = "Left" -> "Equal"
      [] a = "Left" /\ b = "Right" -> "Less"
      [] a = "Right" /\ b = "Right" -> "Equal"
      [] a = "Right" /\ b = "Left" -> "Greater"

(* impl PartialOrd for Bias: fn partial_cmp is Some(self.cmp(other)) *)
BiasPartialCmp(a, b) == [some |-> TRUE, ord |-> BiasCmp(a, b)]

(* #[derive(Eq, PartialEq)] on a field-less enum: the same variant. *)
BiasEq(a, b) == a = b

BiasInit == MergeIdle /\ DispIdle /\ PureIdle

(* a.cmp(&b), a.partial_cmp(&b) and a == b are evaluated. *)
BiasCompare(a, b) ==
    /\ Len(biasLog) < MaxCmps
    /\ biasLog' = Append(biasLog, [lhs |-> a, rhs |-> b,
                                   ord |-> BiasCmp(a, b),
                                   partial |-> BiasPartialCmp(a, b),
                                   eq |-> BiasEq(a, b)])
    /\ UNCHANGED <<mergeVars, dispVars, charVars, ctxVars>>

BiasNext == \E a \in Bias, b \in Bias : BiasCompare(a, b)

BiasSpec == BiasInit /\ [][BiasNext]_vars

BiasEntries == {biasLog[k] : k \in 1..Len(biasLog)}

Reverse(o) == IF o = "Less" THEN "Greater" ELSE IF o = "Greater" THEN "Less" ELSE o

(* C12: every comparison of Bias values gives the four results of the      *)
(* order Left < Right; comparisons made in both directions are reverses    *)
(* of each other, the order is transitive, it is Equal exactly when the    *)
(* two values are equal, and partial_cmp is Some of the result of cmp.     *)
C12_BiasTotalOrder ==
    /\ \A e \in BiasEntries :
          /\ e.ord = (IF e.lhs = e.rhs THEN "Equal"
                      ELSE IF e.lhs = "Left" THEN "Less" ELSE "Greater")
          /\ (e.ord = "Equal") <=> e.eq
          /\ e.partial = [some |-> TRUE, ord |-> e.ord]
    /\ \A e, f \in BiasEntries :
          (e.lhs = f.rhs /\ e.rhs = f.lhs) => e.ord = Reverse(f.ord)
    /\ \A e, f, g \in BiasEntries :
          (/\ e.rhs = f.lhs /\ g.lhs = e.lhs /\ g.rhs = f.rhs
           /\ e.ord # "Greater" /\ f.ord # "Greater") =>
              /\ g.ord # "Greater"
              /\ (e.ord = "Less" \/ f.ord = "Less") => g.ord = "Less"

(* Left and Right were compared in both directions and with themselves. *)
C12_Witness ==
    /\ \E e \in BiasEntries : e.lhs = "Left" /\ e.rhs = "Right"
    /\ \E e \in BiasEntries : e.lhs = "Right" /\ e.rhs = "Left"
    /\ \E e \in BiasEntries : e.lhs = "Right" /\ e.rhs = "Right"
    /\ \E e \in BiasEntries : e.lhs = "Left" /\ e.rhs = "Left"

----------------------------------------------------------------------------
(* RandomCharIter.  Characters are their code points.  The random source   *)
(* is an oracle: flips[k] is what the k-th gen_bool of the chain would     *)
(* return if it were called, pick is the raw draw that gen_range or        *)
(* choose reduces to the range asked for.                                  *)
Newline == 10
GreekFirst == 945
GreekLast == 969
Symbols == <<9995, 9989, 10060, 10062, 11088>>
Pictographs == <<127824, 127936, 127831, 127881>>
AsciiFirst == 97
AsciiLast == 122
CharMax == 1114111
SurrogateFirst == 55296
SurrogateLast == 57343

Flips == [1..4 -> BOOLEAN]
Picks == 0..(AsciiLast - AsciiFirst)

Some(c) == [kind |-> "Some", ch |-> c]
None == [kind |-> "None", ch |-> 0]
Panic == [kind |-> "panic", ch |-> 0]

(* Records of the calls made on the random source. *)
GenBoolCall(num, den) == [op |-> "gen_bool", a |-> num, b |-> den]
GenRangeCall(lo, hi) == [op |-> "gen_range", a |-> lo, b |-> hi]
ChooseCall(len) == [op |-> "choose", a |-> 1, b |-> len]

(* rng.gen_range(lo..hi): a value of the half-open range. *)
GenRange(lo, hi, pick) == lo + (pick % (hi - lo))

(* slice.choose(rng).cloned(): None on an empty slice, else one element. *)
Choose(slice, pick) ==
    IF Len(slice) = 0 THEN None ELSE Some(slice[(pick % Len(slice)) + 1])

(* std::char::from_u32: None for surrogates and values above char::MAX. *)
CharFromU32(n) ==
    IF n > CharMax \/ (n >= SurrogateFirst /\ n <= SurrogateLast) THEN None ELSE Some(n)

(* Option::unwrap *)
Unwrap(o) == IF o.kind = "Some" THEN o ELSE Panic

(* A faulty variant: the four flips are all drawn before the chain is     *)
(* evaluated.                                                              *)
RandomNextEagerFlips(flips, pick) ==
    LET bools == <<GenBoolCall(1, 5), GenBoolCall(1, 8),
                   GenBoolCall(1, 10), GenBoolCall(1, 12)>>
    IN IF flips[1] THEN
           [out |-> Some(Newline), calls |-> bools]
       ELSE IF flips[2] THEN
           [out |-> Unwrap(CharFromU32(GenRange(GreekFirst, GreekLast + 1, pick))),
            calls |-> Append(bools, GenRangeCall(GreekFirst, GreekLast + 1))]
       ELSE IF flips[3] THEN
           [out |-> Choose(Symbols, pick),
            calls |-> Append(bools, ChooseCall(Len(Symbols)))]
       ELSE IF flips[4] THEN
           [out |-> Choose(Pictographs, pick),
            calls |-> Append(bools, ChooseCall(Len(Pictographs)))]
       ELSE
           [out |-> Some(GenRange(AsciiFirst, AsciiLast + 1, pick)),
            calls |-> Append(bools, GenRangeCall(AsciiFirst, AsciiLast + 1))]

(* RandomCharIter::next: what it returns and the calls it makes on the     *)
(* random source, in order.                                                *)
RandomNext(flips, pick) ==
    IF flips[1] THEN
        [out |-> Some(Newline), calls |-> <<GenBoolCall(1, 5)>>]
    ELSE IF flips[2] THEN
        [out |-> Unwrap(CharFromU32(GenRange(GreekFirst, GreekLast + 1, pick))),
         calls |-> <<GenBoolCall(1, 5), GenBoolCall(1, 8),
                     GenRangeCall(GreekFirst, GreekLast + 1)>>]
    ELSE IF flips[3] THEN
        [out |-> Choose(Symbols, pick),
         calls |-> <<GenBoolCall(1, 5), GenBoolCall(1, 8), GenBoolCall(1, 10),
                     ChooseCall(Len(Symbols))>>]
    ELSE IF flips[4] THEN
        [out |-> Choose(Pictographs, pick),
         calls |-> <<GenBoolCall(1, 5), GenBoolCall(1, 8), GenBoolCall(1, 10),
                     GenBoolCall(1, 12), ChooseCall(Len(Pictographs))>>]
    ELSE
        [out |-> Some(GenRange(AsciiFirst, AsciiLast + 1, pick)),
         calls |-> <<GenBoolCall(1, 5), GenBoolCall(1, 8), GenBoolCall(1, 10),
                     GenBoolCall(1, 12), GenRangeCall(AsciiFirst, AsciiLast + 1)>>]

CharInit == MergeIdle /\ DispIdle /\ PureIdle

(* One call of next() on the iterator. *)
CharNext(flips, pick) ==
    /\ charCount < MaxChars
    /\ charOut.kind \in {"idle", "Some"}
    /\ LET r == RandomNext(flips, pick)
       IN /\ charOut' = r.out
          /\ rngCalls' = r.calls
          /\ charCount' = IF r.out.kind = "Some" THEN charCount + 1 ELSE charCount
    /\ rngFlips' = flips
    /\ rngPick' = pick
    /\ UNCHANGED <<mergeVars, dispVars, biasVars, ctxVars>>

CharSpecNext == \E flips \in Flips, pick \in Picks : CharNext(flips, pick)

CharSpec == CharInit /\ [][CharSpecNext]_vars

CharCalled == rngCalls # <<>>

(* The first flip of the chain that succeeds; 5 when none does. *)
FirstHit == IF \E k \in 1..4 : rngFlips[k]
            THEN CHOOSE k \in 1..4 : rngFlips[k] /\ \A j \in 1..(k - 1) : ~rngFlips[j]
            ELSE 5

FlipsDrawn == SelectSeq(rngCalls, LAMBDA c : c.op = "gen_bool")

ChainWeights == <<5, 8, 10, 12>>

(* C13: whatever the random source returns, next() returns a character,    *)
(* whose class is fixed by the first flip that succeeds in the order       *)
(* newline (1/5), Greek letter (1/8), one of the 5 symbols (1/10), one of  *)
(* the 4 pictographs (1/12), else a lowercase ASCII letter; the flips      *)
(* drawn are those up to the first success and no later one.               *)
C13_FirstMatchWins ==
    CharCalled =>
        /\ charOut.kind = "Some"
        /\ FirstHit = 1 => charOut.ch = 10
        /\ FirstHit = 2 => charOut.ch \in 945..969
        /\ FirstHit = 3 => charOut.ch \in {9995, 9989, 10060, 10062, 11088}
        /\ FirstHit = 4 => charOut.ch \in {127824, 127936, 127831, 127881}
        /\ FirstHit = 5 => charOut.ch \in 97..122
        /\ Len(FlipsDrawn) = Min(FirstHit, 4)
        /\ \A k \in 1..Len(FlipsDrawn) :
              /\ rngCalls[k] = FlipsDrawn[k]
              /\ FlipsDrawn[k].a = 1 /\ FlipsDrawn[k].b = ChainWeights[k]
        /\ Len(rngCalls) = Len(FlipsDrawn) + (IF FirstHit = 1 THEN 0 ELSE 1)

(* The second flip succeeded while the third would have too: a Greek       *)
(* letter came back after two flips and one range draw.                    *)
C13_Witness ==
    /\ CharCalled
    /\ ~rngFlips[1] /\ rngFlips[2] /\ rngFlips[3]
    /\ charOut = Some(GreekLast)
    /\ Len(rngCalls) = 3
    /\ charCount = MaxChars

----------------------------------------------------------------------------
(* SurfResultExt: context and with_context on surf::Result.  An error is   *)
(* its status code and the chain of messages of the anyhow error inside,   *)
(* outermost first.                                                        *)
Statuses == {400, 404, 500}
OkValues == {"v1", "v2"}
Contexts == {"c1", "c2"}

Ok(v) == [ok |-> TRUE, value |-> v]
Err(e) == [ok |-> FALSE, err |-> e]

(* surf::Error::new(status, error) *)
ErrorNew(status, inner) == [status |-> status, chain |-> inner]

(* e.status() *)
Status(e) == e.status

(* e.into_inner() *)
IntoInner(e) == e.chain

(* anyhow::Error::context: the context becomes the outermost message. *)
AnyhowContext(inner, cx) == <<cx>> \o inner

(* Result::map_err with the closure of context / with_context: an Ok is    *)
(* returned as it is, and the closure (with it the context factory) runs   *)
(* only on an Err.                                                         *)
MapErr(r, cx) ==
    IF r.ok THEN [res |-> r, ran |-> 0]
    ELSE [res |-> Err(ErrorNew(Status(r.err), AnyhowContext(IntoInner(r.err), cx))),
          ran |-> 1]

(* A faulty variant: the wrapped error gets the status of an internal      *)
(* server error.                                                           *)
ContextResetStatus(r, cx) ==
    IF r.ok THEN r ELSE Err(ErrorNew(500, AnyhowContext(IntoInner(r.err), cx)))

(* fn context(self, cx) *)
Context(r, cx) == MapErr(r, cx).res

(* fn with_context(self, f), f returning cx *)
WithContext(r, cx) == MapErr(r, cx)

CtxResults ==
    {Ok(v) : v \in OkValues} \cup
    {Err(ErrorNew(st, <<"cause">>)) : st \in Statuses}

CtxInit ==
    /\ MergeIdle /\ DispIdle /\ BiasIdle /\ CharIdle
    /\ res \in CtxResults
    /\ res0 = res
    /\ ctxLog = <<>>
    /\ factoryCalls = 0

CallContext(cx) ==
    /\ Len(ctxLog) < MaxCtx
    /\ res' = Context(res, cx)
    /\ ctxLog' = Append(ctxLog, [method |-> "context", cx |-> cx])
    /\ UNCHANGED <<res0, factoryCalls>>
    /\ UNCHANGED <<mergeVars, dispVars, biasVars, charVars>>

CallWithContext(cx) ==
    /\ Len(ctxLog) < MaxCtx
    /\ res' = WithContext(res, cx).res
    /\ factoryCalls' = factoryCalls + WithContext(res, cx).ran
    /\ ctxLog' = Append(ctxLog, [method |-> "with_context", cx |-> cx])
    /\ UNCHANGED res0
    /\ UNCHANGED <<mergeVars, dispVars, biasVars, charVars>>

CtxNext ==
    \/ \E cx \in Contexts : CallContext(cx)
    \/ \E cx \in Contexts : CallWithContext(cx)

ContextSpec == CtxInit /\ [][CtxNext]_vars

(* The contexts added so far, the last one first. *)
RECURSIVE AddedContexts(_)
AddedContexts(log) ==
    IF log = <<>> THEN <<>>
    ELSE <<log[Len(log)].cx>> \o AddedContexts(SubSeq(log, 1, Len(log) - 1))

(* C14: after any calls of context and with_context a success is the same  *)
(* success value, and a failure is a failure with the same status code,    *)
(* whose message chain is the original one under the contexts supplied.    *)
C14_ContextKeepsOutcome ==
    /\ res.ok = res0.ok
    /\ res0.ok => res.value = res0.value
    /\ ~res0.ok =>
          /\ res.err.status = res0.err.status
          /\ res.err.chain = AddedContexts(ctxLog) \o res0.err.chain

(* A 404 failure went through both methods and is still a 404. *)
C14_Witness ==
    /\ ~res0.ok /\ res0.err.status = 404
    /\ \E k \in 1..Len(ctxLog) : ctxLog[k].method = "context"
    /\ \E k \in 1..Len(ctxLog) : ctxLog[k].method = "with_context"
    /\ ~res.ok /\ res.err.status = 404
    /\ Len(res.err.chain) = Len(ctxLog) + 1

----------------------------------------------------------------------------
(* handle_messages and the loop it spawns, one per instance i. *)
DispInit ==
    /\ MergeIdle
    /\ DispIdle
    /\ PureIdle

(* Faulty variant: the future of add_message_handler is created and not    *)
(* run before the loop is spawned and handle_messages returns.             *)
SubscribeDeferred(i) ==
    /\ caller[i] = "start"
    /\ caller' = [caller EXCEPT ![i] = "subscribed"]
    /\ UNCHANGED <<channel, closed, task, message, active, polls, yielded,
                   invoked, errlog, other, subscribed, dropped, mergeVars, pureVars>>

(* let mut messages = smol::block_on(rpc.add_message_handler::<M>()); *)
Subscribe(i) ==
    /\ caller[i] = "start"
    /\ caller' = [caller EXCEPT ![i] = "subscribed"]
    /\ subscribed' = [subscribed EXCEPT ![i] = TRUE]
    /\ UNCHANGED <<channel, closed, task, message, active, polls, yielded,
                   invoked, errlog, other, dropped, mergeVars, pureVars>>

(* cx.spawn(|mut cx| async move { ... }).detach(); *)
Spawn(i) ==
    /\ caller[i] = "subscribed"
    /\ caller' = [caller EXCEPT ![i] = "spawned"]
    /\ task' = [task EXCEPT ![i] = "recv"]
    /\ UNCHANGED <<channel, closed, message, active, polls, yielded,
                   invoked, errlog, other, subVars, mergeVars, pureVars>>

(* Faulty variant: handle_messages awaits the spawned task, not detaching it. *)
CallerReturnAwaitsLoop(i) ==
    /\ caller[i] = "spawned"
    /\ task[i] = "done"
    /\ caller' = [caller EXCEPT ![i] = "returned"]
    /\ UNCHANGED <<channel, closed, task, message, active, polls, yielded,
                   invoked, errlog, other, subVars, mergeVars, pureVars>>

(* handle_messages returns to its caller. *)
CallerReturn(i) ==
    /\ caller[i] = "spawned"
    /\ caller' = [caller EXCEPT ![i] = "returned"]
    /\ UNCHANGED <<channel, closed, task, message, active, polls, yielded,
                   invoked, errlog, other, subVars, mergeVars, pureVars>>

(* A message of the type arrives at the peer before any stream is          *)
(* registered for it: it reaches no handler.                               *)
PeerDrop(i) ==
    /\ ~subscribed[i]
    /\ ~closed[i]
    /\ dropped[i] + Len(yielded[i]) < MaxMsgs
    /\ dropped' = [dropped EXCEPT ![i] = @ + 1]
    /\ UNCHANGED <<caller, channel, closed, task, message, active, polls,
                   yielded, invoked, errlog, other, subscribed, mergeVars, pureVars>>

(* The peer sends the next message to the subscription. *)
SourceYield(i) ==
    /\ subscribed[i]
    /\ ~closed[i]
    /\ dropped[i] + Len(yielded[i]) < MaxMsgs
    /\ channel' = [channel EXCEPT ![i] = Append(@, Len(yielded[i]) + 1)]
    /\ yielded' = [yielded EXCEPT ![i] = Append(@, Len(yielded[i]) + 1)]
    /\ UNCHANGED <<caller, closed, task, message, active, polls,
                   invoked, errlog, other, subVars, mergeVars, pureVars>>

(* The peer drops the sending end: no message will ever arrive. *)
SourceClose(i) ==
    /\ subscribed[i]
    /\ ~closed[i]
    /\ closed' = [closed EXCEPT ![i] = TRUE]
    /\ UNCHANGED <<caller, channel, task, message, active, polls, yielded,
                   invoked, errlog, other, subVars, mergeVars, pureVars>>

(* Faulty variant: the handler's future is spawned and the loop goes       *)
(* straight back to recv.                                                  *)
RecvSomeNoAwait(i) ==
    /\ task[i] = "recv"
    /\ channel[i] # <<>>
    /\ message' = [message EXCEPT ![i] = Head(channel[i])]
    /\ channel' = [channel EXCEPT ![i] = Tail(@)]
    /\ invoked' = [invoked EXCEPT ![i] = Append(@, Head(channel[i]))]
    /\ active' = [active EXCEPT ![i] = @ + 1]
    /\ polls' = [polls EXCEPT ![i] = FALSE]
    /\ UNCHANGED <<caller, closed, task, yielded, errlog, other, subVars, mergeVars, pureVars>>

(* messages.recv().await is Some(message); handler.handle(message, ..) is   *)
(* called and its future awaited.                                          *)
RecvSome(i) ==
    /\ task[i] = "recv"
    /\ channel[i] # <<>>
    /\ message' = [message EXCEPT ![i] = Head(channel[i])]
    /\ channel' = [channel EXCEPT ![i] = Tail(@)]
    /\ invoked' = [invoked EXCEPT ![i] = Append(@, Head(channel[i]))]
    /\ active' = [active EXCEPT ![i] = @ + 1]
    /\ polls' = [polls EXCEPT ![i] = FALSE]
    /\ task' = [task EXCEPT ![i] = "handling"]
    /\ UNCHANGED <<caller, closed, yielded, errlog, other, subVars, mergeVars, pureVars>>

(* Faulty variant: the loop ends when no message is waiting (a try_recv). *)
RecvNoneOnEmpty(i) ==
    /\ task[i] = "recv"
    /\ channel[i] = <<>>
    /\ task' = [task EXCEPT ![i] = "done"]
    /\ UNCHANGED <<caller, channel, closed, message, active, polls, yielded,
                   invoked, errlog, other, subVars, mergeVars, pureVars>>

(* messages.recv().await is None: the while let loop ends. *)
RecvNone(i) ==
    /\ task[i] = "recv"
    /\ channel[i] = <<>>
    /\ closed[i]
    /\ task' = [task EXCEPT ![i] = "done"]
    /\ UNCHANGED <<caller, channel, closed, message, active, polls, yielded,
                   invoked, errlog, other, subVars, mergeVars, pureVars>>

(* The handler's future is polled and is Pending. *)
HandlerPending(i) ==
    /\ task[i] = "handling"
    /\ polls' = [polls EXCEPT ![i] = TRUE]
    /\ UNCHANGED <<caller, channel, closed, task, message, active, yielded,
                   invoked, errlog, other, subVars, mergeVars, pureVars>>

(* Faulty variant: an Err leaves the loop (as with the ? operator). *)
HandlerReadyStopOnErr(i, ok) ==
    /\ task[i] = "handling"
    /\ active' = [active EXCEPT ![i] = @ - 1]
    /\ errlog' = [errlog EXCEPT ![i] =
                    IF ok THEN @ ELSE Append(@, Len(invoked[i]))]
    /\ message' = [message EXCEPT ![i] = NoMsg]
    /\ polls' = [polls EXCEPT ![i] = FALSE]
    /\ task' = [task EXCEPT ![i] = IF ok THEN "recv" ELSE "done"]
    /\ UNCHANGED <<caller, channel, closed, yielded, invoked, other, subVars, mergeVars, pureVars>>

(* The handler's future completes with Ok(()) or Err(err); an Err is logged *)
(* and the loop goes on to the next recv.                                  *)
HandlerReady(i, ok) ==
    /\ task[i] = "handling"
    /\ active' = [active EXCEPT ![i] = @ - 1]
    /\ errlog' = [errlog EXCEPT ![i] =
                    IF ok THEN @ ELSE Append(@, Len(invoked[i]))]
    /\ message' = [message EXCEPT ![i] = NoMsg]
    /\ polls' = [polls EXCEPT ![i] = FALSE]
    /\ task' = [task EXCEPT ![i] = "recv"]
    /\ UNCHANGED <<caller, channel, closed, yielded, invoked, other, subVars, mergeVars, pureVars>>

(* A task that has nothing to do with the dispatchers runs. *)
OtherTask ==
    /\ other' = ~other
    /\ UNCHANGED <<caller, channel, closed, task, message, active, polls,
                   yielded, invoked, errlog, subVars, mergeVars, pureVars>>

LoopStep(i) ==
    \/ RecvSome(i)
    \/ RecvNone(i)
    \/ HandlerPending(i)
    \/ \E ok \in BOOLEAN : HandlerReady(i, ok)

DispNext ==
    \/ \E i \in Instances : Subscribe(i)
    \/ \E i \in Instances : Spawn(i)
    \/ \E i \in Instances : CallerReturn(i)
    \/ \E i \in Instances : PeerDrop(i)
    \/ \E i \in Instances : SourceYield(i)
    \/ \E i \in Instances : SourceClose(i)
    \/ \E i \in Instances : LoopStep(i)
    \/ OtherTask

DispatchSpec == DispInit /\ [][DispNext]_vars

(* The executor runs every task that is ready; a handler's future is       *)
(* assumed to complete.  Nothing is assumed of the peer.                   *)
DispFairness ==
    \A i \in Instances :
        /\ WF_vars(Subscribe(i))
        /\ WF_vars(Spawn(i))
        /\ WF_vars(CallerReturn(i))
        /\ WF_vars(RecvSome(i))
        /\ WF_vars(RecvNone(i))
        /\ WF_vars(\E ok \in BOOLEAN : HandlerReady(i, ok))

DispatchFairSpec == DispInit /\ [][DispNext]_vars /\ DispFairness

----------------------------------------------------------------------------
(* Properties of the dispatcher, checked under DispatchSpec and             *)
(* DispatchFairSpec.                                                       *)
IsPrefix(s, t) == Len(s) <= Len(t) /\ s = SubSeq(t, 1, Len(s))

Failed(i) == {errlog[i][k] : k \in 1..Len(errlog[i])}

(* C7: the handler is invoked on the messages of the source in the order   *)
(* they were yielded, once each: the invocations are a prefix of the       *)
(* yielded messages, every yielded message is either invoked or still      *)
(* waiting in the channel (whatever the earlier invocations returned), and *)
(* when the loop has ended the invocations are the yielded messages.       *)
C7_InOrderOncePerMessage ==
    \A i \in Instances :
        /\ IsPrefix(invoked[i], yielded[i])
        /\ invoked[i] \o channel[i] = yielded[i]
        /\ task[i] = "done" => invoked[i] = yielded[i]

(* The first invocation failed and the second message was handled too. *)
C7_Witness ==
    /\ task["h1"] = "done"
    /\ Len(yielded["h1"]) >= 2
    /\ 1 \in Failed("h1")
    /\ invoked["h1"] = yielded["h1"]

(* C8: a dispatcher has at most one handler invocation in progress, and     *)
(* while one is in progress it neither takes a message from the channel    *)
(* nor invokes the handler again.                                          *)
C8_OneHandlerAtATime ==
    /\ [](\A i \in Instances : active[i] <= 1)
    /\ [][\A i \in Instances :
            active[i] > 0 =>
                /\ invoked'[i] = invoked[i]
                /\ IsPrefix(channel[i], channel'[i])]_vars

(* Both dispatchers are handling, a message waits for the first, and the   *)
(* unrelated task has run.                                                 *)
C8_Witness ==
    /\ active["h1"] = 1
    /\ active["h2"] = 1
    /\ channel["h1"] # <<>>
    /\ polls["h1"]
    /\ other

(* C9: the loop has ended only if the source is exhausted, no message      *)
(* waits, no handler runs and every yielded message was handled; and once  *)
(* the source is exhausted the loop eventually ends.                       *)
C9_EndsExactlyOnExhaustion ==
    /\ [](\A i \in Instances :
            task[i] = "done" =>
                /\ closed[i]
                /\ channel[i] = <<>>
                /\ active[i] = 0
                /\ invoked[i] = yielded[i])
    /\ \A i \in Instances : closed[i] ~> (task[i] = "done")

(* The loop ended after handling every message, one of them failing. *)
C9_Witness ==
    /\ task["h1"] = "done"
    /\ Len(invoked["h1"]) = MaxMsgs
    /\ errlog["h1"] # <<>>
    /\ task["h2"] # "done"

(* C10: once the loop is spawned handle_messages can return, whatever the  *)
(* loop and the source have done, and after the return the loop can still  *)
(* take every step but the wait for a message that has not arrived.        *)
C10_ReturnsWithoutAwaiting ==
    \A i \in Instances :
        /\ caller[i] = "spawned" => ENABLED CallerReturn(i)
        /\ (caller[i] = "returned" /\ task[i] # "done") =>
              \/ ENABLED LoopStep(i)
              \/ task[i] = "recv" /\ channel[i] = <<>> /\ ~closed[i]

(* handle_messages has returned; no message was received, no handler ran   *)
(* and the source is not exhausted; the loop is waiting.                   *)
C10_Witness ==
    /\ caller["h1"] = "returned"
    /\ task["h1"] = "recv"
    /\ invoked["h1"] = <<>>
    /\ ~closed["h1"]

(* C18: the stream is registered before the loop is spawned and before     *)
(* handle_messages returns; no message that arrives after the return is    *)
(* dropped, and a message waiting in the channel is eventually handed to   *)
(* the handler, also when it arrived before the loop received anything.    *)
C18_SubscribedBeforeReturn ==
    /\ [](\A i \in Instances :
            caller[i] \in {"spawned", "returned"} => subscribed[i])
    /\ [][\A i \in Instances :
            caller[i] = "returned" => dropped'[i] = dropped[i]]_vars
    /\ \A i \in Instances :
            (channel[i] # <<>>) ~> (invoked[i] = yielded[i])

(* handle_messages has returned and messages wait in the channel while the *)
(* loop has not received anything yet; an earlier message was dropped.     *)
C18_Witness ==
    /\ caller["h1"] = "returned"
    /\ task["h1"] = "recv"
    /\ invoked["h1"] = <<>>
    /\ channel["h1"] # <<>>
    /\ dropped["h1"] > 0

====
